---- MODULE Spec2Model ----
\* Move-legality engine and click handler of the chess board in src/src/App.tsx.
EXTENDS Integers, Sequences, FiniteSets, TLC

VARIABLES board, selectedSquare, currentPlayer, possibleMoves, moveCount

vars == <<board, selectedSquare, currentPlayer, possibleMoves, moveCount>>

----------------------------------------------------------------------------
\* Data model

\* Side length of the board: the loops of getPossibleMoves run r, c < 8.
BoardSize == 8

\* Accepted moves explored when every square of the board may be clicked.
OpeningMoves == 1

\* Accepted moves explored when the clicks stay on the files of ClickFiles.
MaxMoves == 3

\* The files (columns b to e) the clicks of SpecFiles are drawn from.
ClickFiles == 1..4

Coords == 0..(BoardSize - 1)

Squares == Coords \X Coords

PieceColor == {"white", "black"}

PieceKinds == {"king", "queen", "rook", "bishop", "knight", "pawn"}

\* The null entry of a board square.
Empty == [type |-> "none", color |-> "none"]

Piece(t, c) == [type |-> t, color |-> c]

Pieces == {Piece(t, c) : t \in PieceKinds, c \in PieceColor}

\* selectedSquare = null
NoSquare == <<>>

Abs(x) == IF x < 0 THEN -x ELSE x

BackRank(c) ==
  [col \in Coords |->
     Piece(CASE col \in {0, 7} -> "rook"
             [] col \in {1, 6} -> "knight"
             [] col \in {2, 5} -> "bishop"
             [] col = 3 -> "queen"
             [] OTHER -> "king", c)]

initialBoard ==
  [row \in Coords |->
     CASE row = 0 -> BackRank("black")
       [] row = 1 -> [col \in Coords |-> Piece("pawn", "black")]
       [] row = 6 -> [col \in Coords |-> Piece("pawn", "white")]
       [] row = 7 -> BackRank("white")
       [] OTHER -> [col \in Coords |-> Empty]]

\* JavaScript's board[r][c]: a row index outside the array yields undefined,
\* and indexing undefined throws; a column index outside a row yields
\* undefined, which is falsy like null.
RowDefined(r) == r \in Coords

At(b, r, c) == IF c \in Coords THEN b[r][c] ELSE Empty

----------------------------------------------------------------------------
\* isPathClear: the walk from just after the source toward the destination.
\* The result records the squares whose contents were read and whether the
\* walk indexed a row outside the board (a TypeError in the program).

Sign(a, b) == IF a > b THEN 1 ELSE IF a < b THEN -1 ELSE 0

RECURSIVE PathLoop(_, _, _, _, _, _, _, _)
PathLoop(b, currentRow, currentCol, toRow, toCol, rowStep, colStep, visited) ==
  IF ~(currentRow # toRow \/ currentCol # toCol)
  THEN [clear |-> TRUE, visited |-> visited, fault |-> FALSE]
  ELSE IF ~RowDefined(currentRow)
  THEN [clear |-> FALSE, fault |-> TRUE,
        visited |-> Append(visited, <<currentRow, currentCol>>)]
  ELSE IF At(b, currentRow, currentCol) # Empty
  THEN [clear |-> FALSE, fault |-> FALSE,
        visited |-> Append(visited, <<currentRow, currentCol>>)]
  ELSE PathLoop(b, currentRow + rowStep, currentCol + colStep, toRow, toCol,
                rowStep, colStep,
                Append(visited, <<currentRow, currentCol>>))

\* Variant: the walk is skipped and every path counts as clear.
isPathClearUnchecked(b, fromRow, fromCol, toRow, toCol) ==
  [clear |-> TRUE, visited |-> <<>>, fault |-> FALSE]

isPathClear(b, fromRow, fromCol, toRow, toCol) ==
  LET rowStep == Sign(toRow, fromRow)
      colStep == Sign(toCol, fromCol)
  IN  PathLoop(b, fromRow + rowStep, fromCol + colStep, toRow, toCol,
               rowStep, colStep, <<>>)

\* Outcome of a legality check that did not call isPathClear.
Plain(ok) == [ok |-> ok, entered |-> FALSE, visited |-> <<>>, fault |-> FALSE]

\* pattern && isPathClear(...): the walk runs only when the pattern holds.
Guarded(pattern, b, fromRow, fromCol, toRow, toCol) ==
  IF ~pattern THEN Plain(FALSE)
  ELSE LET w == isPathClear(b, fromRow, fromCol, toRow, toCol)
       IN  [ok |-> w.clear, entered |-> TRUE, visited |-> w.visited,
            fault |-> w.fault]

\* Variant: a diagonal step forward is accepted whatever stands on the
\* destination.
pawnMoveAnyDiagonal(b, piece, fromRow, fromCol, toRow, toCol) ==
  LET direction == IF piece.color = "white" THEN -1 ELSE 1
      startRow == IF piece.color = "white" THEN 6 ELSE 1
      colDiff == Abs(toCol - fromCol)
  IN  IF fromCol = toCol
      THEN IF toRow = fromRow + direction /\ b[toRow][toCol] = Empty THEN TRUE
           ELSE IF fromRow = startRow /\ toRow = fromRow + 2 * direction
                   /\ b[toRow][toCol] = Empty THEN TRUE
           ELSE FALSE
      ELSE colDiff = 1 /\ toRow = fromRow + direction

\* Variant: the double step from the start row is missing.
pawnMoveSingleStep(b, piece, fromRow, fromCol, toRow, toCol) ==
  LET direction == IF piece.color = "white" THEN -1 ELSE 1
      colDiff == Abs(toCol - fromCol)
  IN  IF fromCol = toCol
      THEN toRow = fromRow + direction /\ b[toRow][toCol] = Empty
      ELSE IF colDiff = 1 /\ toRow = fromRow + direction
      THEN b[toRow][toCol] # Empty /\ b[toRow][toCol].color # piece.color
      ELSE FALSE

pawnMove(b, piece, fromRow, fromCol, toRow, toCol) ==
  LET direction == IF piece.color = "white" THEN -1 ELSE 1
      startRow == IF piece.color = "white" THEN 6 ELSE 1
      colDiff == Abs(toCol - fromCol)
  IN  IF fromCol = toCol
      THEN IF toRow = fromRow + direction /\ b[toRow][toCol] = Empty THEN TRUE
           ELSE IF fromRow = startRow /\ toRow = fromRow + 2 * direction
                   /\ b[toRow][toCol] = Empty THEN TRUE
           ELSE FALSE
      ELSE IF colDiff = 1 /\ toRow = fromRow + direction
      THEN b[toRow][toCol] # Empty /\ b[toRow][toCol].color # piece.color
      ELSE FALSE

rookPattern(rowDiff, colDiff) == rowDiff = 0 \/ colDiff = 0

\* Variant: any move that changes both row and column counts as diagonal.
bishopPatternLoose(rowDiff, colDiff) == rowDiff > 0 /\ colDiff > 0

bishopPattern(rowDiff, colDiff) == rowDiff = colDiff

queenPattern(rowDiff, colDiff) == rowDiff = 0 \/ colDiff = 0 \/ rowDiff = colDiff

knightPattern(rowDiff, colDiff) ==
  (rowDiff = 2 /\ colDiff = 1) \/ (rowDiff = 1 /\ colDiff = 2)

\* Variant: one of the two distances may exceed 1.
kingPatternEither(rowDiff, colDiff) == rowDiff <= 1 \/ colDiff <= 1

kingPattern(rowDiff, colDiff) == rowDiff <= 1 /\ colDiff <= 1

\* isValidMove with the trace of its path walk.
isValidMoveEval(b, fromRow, fromCol, toRow, toCol) ==
  LET piece == b[fromRow][fromCol]
      rowDiff == Abs(toRow - fromRow)
      colDiff == Abs(toCol - fromCol)
  IN  IF piece = Empty THEN Plain(FALSE)
      ELSE CASE piece.type = "pawn" ->
                  Plain(pawnMove(b, piece, fromRow, fromCol, toRow, toCol))
             [] piece.type = "rook" ->
                  Guarded(rookPattern(rowDiff, colDiff),
                          b, fromRow, fromCol, toRow, toCol)
             [] piece.type = "bishop" ->
                  Guarded(bishopPattern(rowDiff, colDiff),
                          b, fromRow, fromCol, toRow, toCol)
             [] piece.type = "queen" ->
                  Guarded(queenPattern(rowDiff, colDiff),
                          b, fromRow, fromCol, toRow, toCol)
             [] piece.type = "knight" -> Plain(knightPattern(rowDiff, colDiff))
             [] piece.type = "king" -> Plain(kingPattern(rowDiff, colDiff))
             [] OTHER -> Plain(FALSE)

isValidMove(b, fromRow, fromCol, toRow, toCol) ==
  isValidMoveEval(b, fromRow, fromCol, toRow, toCol).ok

----------------------------------------------------------------------------
\* getPossibleMoves: the row-major scan of all destination squares.

\* The order in which the nested loops visit the squares: r = 0..7, and
\* c = 0..7 within each r.
ScanOrder ==
  [k \in 1..(BoardSize * BoardSize) |->
     <<(k - 1) \div BoardSize, (k - 1) % BoardSize>>]

\* Variant: the occupancy filter is missing.
destinationAllowedAlways(b, row, col, r, c) == TRUE

\* The occupancy filter applied to a destination that passed isValidMove.
destinationAllowed(b, row, col, r, c) ==
  b[r][c] = Empty \/ b[r][c].color # b[row][col].color

\* The condition under which the loop body pushes [r, c].
pushes(b, row, col, r, c) ==
  /\ isValidMove(b, row, col, r, c)
  /\ destinationAllowed(b, row, col, r, c)

\* The list built by the loops when no legality check throws.
getPossibleMoves(b, row, col) ==
  SelectSeq(ScanOrder, LAMBDA sq : pushes(b, row, col, sq[1], sq[2]))

\* The number of isValidMove calls one enumeration makes: the loops stop at
\* the first call that throws.
legalityChecks(b, row, col) ==
  LET thrown == {k \in DOMAIN ScanOrder :
                   isValidMoveEval(b, row, col,
                                   ScanOrder[k][1], ScanOrder[k][2]).fault}
  IN  IF thrown = {} THEN Len(ScanOrder)
      ELSE CHOOSE k \in thrown : \A j \in thrown : k <= j

----------------------------------------------------------------------------
\* handleSquareClick

InMoves(moves, row, col) == \E i \in 1..Len(moves) : moves[i] = <<row, col>>

\* Variant: the source square is not cleared.
movePieceCopy(b, selectedRow, selectedCol, row, col) ==
  [b EXCEPT ![row][col] = b[selectedRow][selectedCol]]

movePiece(b, selectedRow, selectedCol, row, col) ==
  LET placed == [b EXCEPT ![row][col] = b[selectedRow][selectedCol]]
  IN  [placed EXCEPT ![selectedRow][selectedCol] = Empty]

otherPlayer(p) == IF p = "white" THEN "black" ELSE "white"

\* Click on the selected square: the selection is dropped.
deselect ==
  /\ selectedSquare' = NoSquare
  /\ possibleMoves' = <<>>
  /\ UNCHANGED <<board, currentPlayer, moveCount>>

\* Variant: the turn is not passed on.
commitMoveKeepsTurn(row, col) ==
  /\ board' = movePiece(board, selectedSquare[1], selectedSquare[2], row, col)
  /\ currentPlayer' = currentPlayer
  /\ selectedSquare' = NoSquare
  /\ possibleMoves' = <<>>
  /\ moveCount' = moveCount + 1

\* Variant: the selection and its highlights survive the move.
commitMoveKeepsSelection(row, col) ==
  /\ board' = movePiece(board, selectedSquare[1], selectedSquare[2], row, col)
  /\ currentPlayer' = otherPlayer(currentPlayer)
  /\ UNCHANGED <<selectedSquare, possibleMoves>>
  /\ moveCount' = moveCount + 1

\* Click on a highlighted square: the selected piece is moved there.
commitMove(row, col) ==
  /\ board' = movePiece(board, selectedSquare[1], selectedSquare[2], row, col)
  /\ currentPlayer' = otherPlayer(currentPlayer)
  /\ selectedSquare' = NoSquare
  /\ possibleMoves' = <<>>
  /\ moveCount' = moveCount + 1

\* The tail of the handler: select the clicked piece or clear the selection.
selectOrClear(row, col) ==
  LET piece == board[row][col]
  IN  /\ IF piece # Empty /\ piece.color = currentPlayer
         THEN /\ selectedSquare' = <<row, col>>
              /\ possibleMoves' = getPossibleMoves(board, row, col)
         ELSE /\ selectedSquare' = NoSquare
              /\ possibleMoves' = <<>>
      /\ UNCHANGED <<board, currentPlayer, moveCount>>

handleSquareClick(row, col) ==
  IF selectedSquare # NoSquare /\ selectedSquare = <<row, col>>
  THEN deselect
  ELSE IF selectedSquare # NoSquare /\ InMoves(possibleMoves, row, col)
  THEN commitMove(row, col)
  ELSE selectOrClear(row, col)

----------------------------------------------------------------------------
\* The game: the state of App after construction, then any clicks.

Init ==
  /\ board = initialBoard
  /\ selectedSquare = NoSquare
  /\ currentPlayer = "white"
  /\ possibleMoves = <<>>
  /\ moveCount = 0

\* Clicks on any square, up to OpeningMoves accepted moves.
Next ==
  \E row \in Coords, col \in Coords :
    /\ handleSquareClick(row, col)
    /\ moveCount' <= OpeningMoves

Spec == Init /\ [][Next]_vars

\* Clicks on the files of ClickFiles, up to MaxMoves accepted moves.
NextFiles ==
  \E row \in Coords, col \in ClickFiles :
    /\ handleSquareClick(row, col)
    /\ moveCount' <= MaxMoves

SpecFiles == Init /\ [][NextFiles]_vars

----------------------------------------------------------------------------
\* The move rules on arbitrary boards: a piece of one of the kinds `movers`
\* on any square, with at most one piece of `others` on any other square,
\* and the enumeration applied to it by a click.

emptyBoard == [row \in Coords |-> [col \in Coords |-> Empty]]

placeOn(b, row, col, p) == [b EXCEPT ![row][col] = p]

\* The pieces drawn for the second piece of a board.
OtherPieces == {Piece("pawn", "white"), Piece("pawn", "black")}

PiecesOf(kinds) == {Piece(t, c) : t \in kinds, c \in PieceColor}

InitPlaced(movers, others) ==
  \E fromRow \in Coords, fromCol \in Coords, p \in movers,
     otherRow \in Coords, otherCol \in Coords, q \in others :
    /\ board = placeOn(placeOn(emptyBoard, otherRow, otherCol, q),
                       fromRow, fromCol, p)
    /\ currentPlayer = p.color
    /\ selectedSquare = NoSquare
    /\ possibleMoves = <<>>
    /\ moveCount = 0

\* Clicks on occupied squares that select or deselect; no move is committed.
NextBoards ==
  \E row \in Coords, col \in Coords :
    /\ board[row][col] # Empty
    /\ handleSquareClick(row, col)
    /\ board' = board

\* Any piece, with a pawn of either colour elsewhere.
InitBoards == InitPlaced(Pieces, OtherPieces)

SpecBoards == InitBoards /\ [][NextBoards]_vars

\* A rook, bishop or queen, with a pawn of either colour elsewhere.
InitSliders == InitPlaced(PiecesOf({"rook", "bishop", "queen"}), OtherPieces)

SpecSliders == InitSliders /\ [][NextBoards]_vars

\* A pawn, with a pawn of either colour elsewhere.
InitPawns == InitPlaced(PiecesOf({"pawn"}), OtherPieces)

SpecPawns == InitPawns /\ [][NextBoards]_vars

\* A king on an otherwise empty board.
InitKing == InitPlaced(PiecesOf({"king"}), {Empty})

SpecKing == InitKing /\ [][NextBoards]_vars

----------------------------------------------------------------------------
\* Helpers of the properties

Occupied(b) == {sq \in Squares : b[sq[1]][sq[2]] # Empty}

PieceCount(b) == Cardinality(Occupied(b))

MoveSet(moves) == {moves[i] : i \in 1..Len(moves)}

Selected == selectedSquare # NoSquare

SelectedPiece == board[selectedSquare[1]][selectedSquare[2]]

\* isValidMove between two squares given as pairs.
Legal(b, from, to) == isValidMove(b, from[1], from[2], to[1], to[2])

Max(a, b) == IF a > b THEN a ELSE b

Aligned(from, to) ==
  \/ from[1] = to[1]
  \/ from[2] = to[2]
  \/ Abs(to[1] - from[1]) = Abs(to[2] - from[2])

\* The squares strictly between two aligned squares (none when the squares
\* share no row, column or diagonal).
Between(from, to) ==
  IF ~Aligned(from, to) THEN {}
  ELSE LET dist == Max(Abs(to[1] - from[1]), Abs(to[2] - from[2]))
       IN  {<<from[1] + k * Sign(to[1], from[1]),
              from[2] + k * Sign(to[2], from[2])>> : k \in 1..(dist - 1)}

----------------------------------------------------------------------------
\* C1: the enumeration of the selected square holds a square `to` exactly
\* when isValidMove accepts the move and `to` is empty or holds a piece of the
\* other colour; so it never holds a square with a piece of the mover's own
\* colour, and never the source square, also where isValidMove alone accepts
\* the move of zero displacement.
C1_Destinations ==
  Selected =>
    LET from == selectedSquare
        mover == SelectedPiece
    IN  /\ \A to \in Squares :
             to \in MoveSet(possibleMoves) <=>
               /\ Legal(board, from, to)
               /\ \/ board[to[1]][to[2]] = Empty
                  \/ board[to[1]][to[2]].color # mover.color
        /\ \A to \in MoveSet(possibleMoves) :
             board[to[1]][to[2]].color # mover.color
        /\ from \notin MoveSet(possibleMoves)

\* A king, rook, bishop or queen is selected, isValidMove accepts its move of
\* zero displacement and a move onto a piece of its own colour, and the
\* enumeration is not empty.
C1_Witness ==
  /\ Selected
  /\ SelectedPiece.type \in {"king", "rook", "bishop", "queen"}
  /\ Legal(board, selectedSquare, selectedSquare)
  /\ \E to \in Squares \ {selectedSquare} :
       /\ Legal(board, selectedSquare, to)
       /\ board[to[1]][to[2]].color = SelectedPiece.color
  /\ possibleMoves # <<>>

\* C2: for a rook, bishop or queen, isValidMove holds exactly when the move
\* matches the piece's line pattern and every square strictly between source
\* and destination is empty; a piece standing on an intermediate square of a
\* move that is legal without it makes the move illegal, and a piece standing
\* on the destination or off the line does not change the result.
C2_Sliding ==
  (Selected /\ SelectedPiece.type \in {"rook", "bishop", "queen"}) =>
    LET from == selectedSquare
        kind == SelectedPiece.type
        Pattern(to) ==
          LET rowDiff == Abs(to[1] - from[1])
              colDiff == Abs(to[2] - from[2])
          IN  CASE kind = "rook" -> rowDiff = 0 \/ colDiff = 0
                [] kind = "bishop" -> rowDiff = colDiff
                [] OTHER -> rowDiff = 0 \/ colDiff = 0 \/ rowDiff = colDiff
    IN  /\ \A to \in Squares :
             Legal(board, from, to) <=>
               /\ Pattern(to)
               /\ \A sq \in Between(from, to) : board[sq[1]][sq[2]] = Empty
        /\ \A sq \in Occupied(board) \ {from} :
             \A bare \in {placeOn(board, sq[1], sq[2], Empty)} :
               \A to \in Squares :
                 IF sq \in Between(from, to)
                 THEN Legal(bare, from, to) => ~Legal(board, from, to)
                 ELSE Legal(bare, from, to) = Legal(board, from, to)

\* A slider is selected and the other piece stands strictly between it and a
\* destination that is legal without that piece; the other piece is itself a
\* legal destination.
C2_Witness ==
  /\ Selected
  /\ SelectedPiece.type \in {"rook", "bishop", "queen"}
  /\ \E sq \in Occupied(board) \ {selectedSquare} :
       /\ Legal(board, selectedSquare, sq)
       /\ \E to \in Squares :
            /\ sq \in Between(selectedSquare, to)
            /\ Legal(placeOn(board, sq[1], sq[2], Empty), selectedSquare, to)
            /\ ~Legal(board, selectedSquare, to)

\* C4: a pawn's diagonal move is legal exactly when the column differs by 1,
\* the destination row is one step in the pawn's direction and the destination
\* holds a piece of the other colour; a pawn never moves backward, sideways,
\* more than two rows or straight onto an occupied square, and a pawn on the
\* far rank has no legal move.
C4_Pawn ==
  (Selected /\ SelectedPiece.type = "pawn") =>
    LET from == selectedSquare
        color == SelectedPiece.color
        dir == IF color = "white" THEN -1 ELSE 1
        startRow == IF color = "white" THEN 6 ELSE 1
        farRank == IF color = "white" THEN 0 ELSE 7
    IN  /\ \A to \in Squares :
             LET target == board[to[1]][to[2]]
                 ahead == (to[1] - from[1]) * dir
                 colDiff == Abs(to[2] - from[2])
             IN  /\ colDiff # 0 =>
                      (Legal(board, from, to) <=>
                         /\ colDiff = 1
                         /\ ahead = 1
                         /\ target # Empty
                         /\ target.color # color)
                 /\ Legal(board, from, to) =>
                      /\ ahead \in {1, 2}
                      /\ colDiff <= 1
                      /\ colDiff = 0 => target = Empty
                      /\ ahead = 2 => (colDiff = 0 /\ from[1] = startRow)
        /\ from[1] = farRank => \A to \in Squares : ~Legal(board, from, to)

\* A pawn is selected and the other piece, diagonally ahead of it, is among
\* its destinations.
C4_Witness ==
  /\ Selected
  /\ SelectedPiece.type = "pawn"
  /\ \E to \in Occupied(board) :
       /\ to[2] # selectedSquare[2]
       /\ Legal(board, selectedSquare, to)
       /\ to \in MoveSet(possibleMoves)

\* A pawn standing on its far rank is selected.
C4_WitnessFarRank ==
  /\ Selected
  /\ SelectedPiece.type = "pawn"
  /\ selectedSquare[1] = (IF SelectedPiece.color = "white" THEN 0 ELSE 7)

\* C5: for a king alone on the board, the enumeration is exactly the set of
\* squares of the board at row and column distance at most 1 from the king,
\* without the king's own square: 3 squares in a corner, 5 on an edge, 8
\* elsewhere.
C5_KingAlone ==
  (Selected /\ SelectedPiece.type = "king" /\ PieceCount(board) = 1) =>
    LET from == selectedSquare
        onRowEdge == from[1] \in {0, BoardSize - 1}
        onColEdge == from[2] \in {0, BoardSize - 1}
    IN  /\ MoveSet(possibleMoves) =
             {sq \in Squares :
                /\ Abs(sq[1] - from[1]) <= 1
                /\ Abs(sq[2] - from[2]) <= 1
                /\ sq # from}
        /\ Len(possibleMoves) =
             (IF onRowEdge /\ onColEdge THEN 3
              ELSE IF onRowEdge \/ onColEdge THEN 5 ELSE 8)
        /\ Cardinality(MoveSet(possibleMoves)) = Len(possibleMoves)

\* A lone king is selected in a corner.
C5_Witness ==
  /\ Selected
  /\ SelectedPiece.type = "king"
  /\ PieceCount(board) = 1
  /\ selectedSquare \in {<<0, 0>>, <<0, 7>>, <<7, 0>>, <<7, 7>>}
  /\ Len(possibleMoves) = 3

\* C10: for in-range squares a legality check ends with a boolean and reads
\* only squares of the board: the path walk is entered only for a move along
\* a common row, column or diagonal, reads only squares strictly between
\* source and destination, takes at most 7 steps and never throws; and one
\* enumeration makes exactly 64 legality checks.
C10_Walk ==
  Selected =>
    LET from == selectedSquare
    IN  /\ \A to \in Squares :
             \A e \in {isValidMoveEval(board, from[1], from[2], to[1], to[2])} :
               /\ e.ok \in BOOLEAN
               /\ ~e.fault
               /\ IF e.entered
                  THEN /\ Aligned(from, to)
                       /\ Len(e.visited) <= 7
                       /\ \A i \in 1..Len(e.visited) :
                            /\ e.visited[i] \in Squares
                            /\ e.visited[i] \in Between(from, to)
                  ELSE e.visited = <<>>
        /\ legalityChecks(board, from[1], from[2]) = 64

\* A rook, bishop or queen is selected whose walk toward some destination
\* reads six squares, and whose pattern rejects some non-aligned destination.
C10_Witness ==
  /\ Selected
  /\ SelectedPiece.type \in {"rook", "bishop", "queen"}
  /\ \E to \in Squares :
       LET e == isValidMoveEval(board, selectedSquare[1], selectedSquare[2],
                                to[1], to[2])
       IN  e.entered /\ Len(e.visited) = 6 /\ e.ok
  /\ \E to \in Squares :
       /\ ~Aligned(selectedSquare, to)
       /\ ~isValidMoveEval(board, selectedSquare[1], selectedSquare[2],
                           to[1], to[2]).entered

\* C3: a pawn on its start row may move two steps forward only when the
\* square one step forward is empty.
C3_DoubleStepNeedsClearPath ==
  \A col \in Coords, color \in PieceColor :
    LET startRow == IF color = "white" THEN 6 ELSE 1
        dir == IF color = "white" THEN -1 ELSE 1
    IN  (/\ board[startRow][col] = Piece("pawn", color)
         /\ isValidMove(board, startRow, col, startRow + 2 * dir, col))
        => board[startRow + dir][col] = Empty

\* The squares of the initial position that the board has left empty.
Vacated == {sq \in Occupied(initialBoard) : board[sq[1]][sq[2]] = Empty}

\* C6: in the initial position the white pawn at (6,4) has exactly the
\* destinations (5,4) and (4,4), the white knight at (7,1) exactly (5,0) and
\* (5,2), the black rook at (0,0) none, and every back-rank piece other than
\* a knight none; so the first accepted move is made by a white pawn or a
\* white knight.
C6_InitialPosition ==
  /\ moveCount = 0 =>
       /\ board = initialBoard
       /\ MoveSet(getPossibleMoves(board, 6, 4)) = {<<5, 4>>, <<4, 4>>}
       /\ MoveSet(getPossibleMoves(board, 7, 1)) = {<<5, 0>>, <<5, 2>>}
       /\ getPossibleMoves(board, 0, 0) = <<>>
       /\ \A row \in {0, 7}, col \in Coords :
            board[row][col].type # "knight" =>
              getPossibleMoves(board, row, col) = <<>>
       /\ selectedSquare = <<6, 4>> =>
            MoveSet(possibleMoves) = {<<5, 4>>, <<4, 4>>}
       /\ selectedSquare = <<7, 1>> =>
            MoveSet(possibleMoves) = {<<5, 0>>, <<5, 2>>}
       /\ (Selected /\ SelectedPiece.type \notin {"pawn", "knight"}) =>
            possibleMoves = <<>>
  /\ moveCount = 1 =>
       \E from \in Vacated :
         /\ initialBoard[from[1]][from[2]].color = "white"
         /\ initialBoard[from[1]][from[2]].type \in {"pawn", "knight"}
         /\ \E to \in Squares :
              board = movePiece(initialBoard, from[1], from[2], to[1], to[2])

\* The first move has been accepted and was made by the knight of (7,1).
C6_Witness ==
  /\ moveCount = 1
  /\ board[7][1] = Empty
  /\ board[5][2] = Piece("knight", "white")

\* The parts of C7: the bound on the count, and the effect of one click.
C7_CountInv == PieceCount(board) <= 32

C7_ClickStep ==
  /\ PieceCount(board') <= PieceCount(board)
  /\ moveCount' = moveCount => board' = board
  /\ moveCount' # moveCount =>
       /\ Selected
       /\ \E to \in Squares \ {selectedSquare} :
            LET from == selectedSquare
                mover == board[from[1]][from[2]]
                target == board[to[1]][to[2]]
            IN  /\ mover # Empty
                /\ board'[to[1]][to[2]] = mover
                /\ board'[from[1]][from[2]] = Empty
                /\ \A sq \in Squares \ {from, to} :
                     board'[sq[1]][sq[2]] = board[sq[1]][sq[2]]
                /\ IF target = Empty
                   THEN PieceCount(board') = PieceCount(board)
                   ELSE /\ target.color # mover.color
                        /\ PieceCount(board') = PieceCount(board) - 1

\* C7: the board never holds more than 32 pieces and no click adds a piece:
\* an accepted move onto an empty square keeps the count, an accepted move
\* onto an occupied square lands on a piece of the other colour and lowers the
\* count by one, and any other click leaves the board as it is; the moved
\* piece keeps type and colour and the squares other than source and
\* destination keep their contents.
C7_PieceCount == [](C7_CountInv) /\ [][C7_ClickStep]_vars

\* A capture has been made: a piece is gone from the board.
C7_Witness == moveCount > 0 /\ PieceCount(board) = 31

\* The parts of C8: the parity of the turn, and the effect of one click.
C8_Parity == (currentPlayer = "white") <=> (moveCount % 2 = 0)

C8_ClickStep ==
  /\ board' # board =>
       /\ Selected
       /\ SelectedPiece.color = currentPlayer
       /\ board'[selectedSquare[1]][selectedSquare[2]] = Empty
       /\ currentPlayer' = otherPlayer(currentPlayer)
       /\ currentPlayer' # currentPlayer
       /\ moveCount' = moveCount + 1
  /\ board' = board =>
       /\ currentPlayer' = currentPlayer
       /\ moveCount' = moveCount

\* C8: the players alternate from white: the board changes only by a move of
\* a piece of the side to move, every accepted move passes the turn to the
\* other colour, and a click that commits no move leaves board and turn as
\* they are; so white is to move exactly when the number of accepted moves is
\* even.
C8_Alternation == [](C8_Parity) /\ [][C8_ClickStep]_vars

\* Two moves have been accepted and white is to move again.
C8_Witness == moveCount = 2 /\ currentPlayer = "white" /\ board # initialBoard

\* The parts of C9: the cached enumeration, and the effect of a move.
C9_CacheInv ==
  IF Selected
  THEN /\ SelectedPiece # Empty
       /\ SelectedPiece.color = currentPlayer
       /\ possibleMoves = getPossibleMoves(board, selectedSquare[1],
                                           selectedSquare[2])
  ELSE possibleMoves = <<>>

C9_CommitStep ==
  board' # board =>
    /\ Selected
    /\ \E to \in Squares :
         /\ board'[to[1]][to[2]] = SelectedPiece
         /\ to # selectedSquare
         /\ Legal(board, selectedSquare, to)
         /\ board[to[1]][to[2]].color # SelectedPiece.color

\* C9: a selected square holds a piece of the side to move and the cached
\* possibleMoves is the enumeration of that square on the current board;
\* with no square selected possibleMoves is empty; so every committed move
\* passes isValidMove on the board of that moment and does not land on a
\* piece of the mover's colour.
C9_FreshCache == [](C9_CacheInv) /\ [][C9_CommitStep]_vars

\* After an accepted move a piece of the side now to move is selected and
\* its enumeration is not empty.
C9_Witness == moveCount > 0 /\ Selected /\ possibleMoves # <<>>

====
